---- MODULE Spec2Model ----
(***************************************************************************)
(* Verification model of the ETF momentum rotation strategy                *)
(* (strategy/etf_momentum.py, class EtfMomentumStrategy) running inside    *)
(* the backtrader bar loop, of the CustomAnalyzer that records the         *)
(* portfolio value of every bar (strategy/analyzer.py) and of the          *)
(* PerformanceCalculator applied to the recorded returns                   *)
(* (strategy/performance_calculator.py).                                   *)
(*                                                                         *)
(* Numbers.  Python floats are modelled as exact rationals <<n, d>> with   *)
(* d > 0 in lowest terms.  Indicator values (momentum, volatility) are     *)
(* integers counting multiples of 1e-8, so that the division guard         *)
(* `vol > 1e-8` is the comparison `vol > EPS` with EPS = 1.  Prices, cash  *)
(* and position sizes are integers.  An indicator slot is a sequence:      *)
(* <<>> is NaN (no value produced yet), <<v>> is the value v.              *)
(***************************************************************************)
EXTENDS Integers, Sequences, FiniteSets, TLC

\* ------------------------------------------------------------------ bounds
\* len(self.datas): the three data feeds the test and the script add.
N == 3
\* params.momentum_window (default 20), scaled down.
MomentumWindow == 3
\* rebalance_days is drawn from 1..MaxRebalanceDays at construction.
MaxRebalanceDays == 2
\* number of bars of the data feed on which next() is called.
WarmBars == 4

\* `vol > 1e-8`, in units of 1e-8.
EPS == 1
\* `threshold = total_value * 0.01`, i.e. total_value / 100.
ThresholdDen == 100
\* cerebro.broker.setcash(100000.0)
InitialCash == 100000

Assets == 1..N

\* --------------------------------------------------------------- rationals
Abs(x) == IF x < 0 THEN -x ELSE x

RECURSIVE GCD(_, _)
GCD(a, b) == IF b = 0 THEN a ELSE GCD(b, a % b)

\* n / d as a float division, d # 0.
Rat(n, d) ==
    LET g == GCD(Abs(n), Abs(d))
        s == IF d < 0 THEN -1 ELSE 1
    IN  <<(s * n) \div g, (s * d) \div g>>

Zero == <<0, 1>>
One == <<1, 1>>
FromInt(x) == <<x, 1>>
\* the operations bring both operands to the least common denominator.
RAdd(a, b) ==
    LET g == GCD(a[2], b[2])
    IN  Rat(a[1] * (b[2] \div g) + b[1] * (a[2] \div g), (a[2] \div g) * b[2])
RSub(a, b) ==
    LET g == GCD(a[2], b[2])
    IN  Rat(a[1] * (b[2] \div g) - b[1] * (a[2] \div g), (a[2] \div g) * b[2])
RMul(a, b) ==
    LET x == Rat(a[1], b[2])
        y == Rat(b[1], a[2])
    IN  <<x[1] * y[1], x[2] * y[2]>>
RDiv(a, b) == RMul(a, Rat(b[2], b[1]))
RLt(a, b) ==
    LET g == GCD(a[2], b[2])
    IN  a[1] * (b[2] \div g) < b[1] * (a[2] \div g)
RGt(a, b) == RLt(b, a)
RLe(a, b) == ~RLt(b, a)
RAbs(a) == <<Abs(a[1]), a[2]>>

\* floor(a), the largest integer <= a.
Floor(a) == a[1] \div a[2]
\* Variant: math.floor(x).
int_floor(a) == a[1] \div a[2]

\* Python int(x): truncation toward zero.
int(a) == IF a[1] >= 0 THEN a[1] \div a[2] ELSE -((-a[1]) \div a[2])

RECURSIVE RSum(_)
\* np.sum over a sequence of rationals.
RSum(s) == IF s = <<>> THEN Zero ELSE RAdd(Head(s), RSum(Tail(s)))

\* ------------------------------------------------------------------ state
VARIABLES
    pc,                   \* position in the bar loop: "feed", "broker", "strategy"
    bar,                  \* len(self.datas[0]): number of bars delivered so far
    open,                 \* data.open[0] of every feed
    close,                \* data.close[0] of every feed (self.dataclose)
    momentum,             \* self.momentum[i][0]: <<>> is NaN, <<m>> a value
    volatility,           \* self.volatility[i][0]: <<>> is NaN, <<v>> a value
    rebalance_days,       \* self.params.rebalance_days
    rebalance_counter,    \* self.rebalance_counter
    calls,                \* number of calls of next() so far
    cash,                 \* self.broker.getcash()
    position,             \* self.getposition(data).size of every feed
    adj_momentum_values,  \* the scores computed by the last call, <<>> if none
    target_weights,       \* the weights computed by the last call, <<>> if none
    orders,               \* the intents emitted by the last call, not yet executed
    outcome,              \* what the last strategy callback did
    divisors,             \* the volatilities the last call divided by
    ret,                  \* self.returns[i]: the last PctChange values of every feed
    custom,               \* the CustomAnalyzer: its values and returns lists
    metrics,              \* the results of PerformanceCalculator, <<>> if not computed
    copy,                 \* the EtfMomentumSBacktrader strategy run on the same bars
    hold,                 \* the buy-and-hold baseline, its broker and its orders
    fetch                 \* fetch_etf_data: the loop over the symbols

\* what the analysis of a run keeps.
analysis == <<ret, custom, metrics>>

\* the other programs of the repository.
others == <<copy, hold, fetch>>

vars == <<pc, bar, open, close, momentum, volatility, rebalance_days,
          rebalance_counter, calls, cash, position, adj_momentum_values,
          target_weights, orders, outcome, divisors, ret, custom, metrics,
          copy, hold, fetch>>

NaN == <<>>

\* Variant: the one-bar lag of PctChange is forgotten.
MinPeriodOffByOne == MomentumWindow

\* Minimum period of the indicator chain built in __init__:
\* PctChange(close, period=1) has its first value on bar 2, and the
\* SimpleMovingAverage / StandardDeviation of period W over it on bar W + 1.
\* backtrader calls prenext() before that bar and next() from it on.
MinPeriod == MomentumWindow + 1

\* length of the data feed.
MaxBars == MinPeriod + WarmBars - 1

\* ------------------------------------------------------ EtfMomentumStrategy
\* Variant: `vol >= 1e-8`.
VolAtLeastEps(vol) == vol # NaN /\ vol[1] >= EPS

\* `vol > 1e-8` on a float that may be NaN (every comparison with NaN is False).
VolAboveEps(vol) == vol # NaN /\ vol[1] > EPS

\* lines 103-116: the risk-adjusted momentum of one feed.
\* len_ind is len(self.momentum[i]) = len(self.volatility[i]).
adj_mom(len_ind, mom, vol) ==
    IF len_ind > 0
    THEN IF VolAboveEps(vol)
         THEN IF mom = NaN THEN NaN ELSE Rat(mom[1], vol[1])
         ELSE Zero
    ELSE Zero

\* lines 101-116: one score per feed, in feed order.
AdjMomentumValues(len_ind, moms, vols) ==
    [i \in Assets |-> adj_mom(len_ind, moms[i], vols[i])]

\* `v > 0` on a float that may be NaN.
IsPositive(v) == v # NaN /\ RGt(v, Zero)

\* Variant: `if v != 0`, negative scores are selected too.
nonzero_indices(values) ==
    SelectSeq([i \in Assets |-> i],
              LAMBDA i : values[i] # NaN /\ values[i] # Zero)

\* line 119: [i for i, v in enumerate(adj_momentum_values) if v > 0]
positive_indices(values) ==
    SelectSeq([i \in Assets |-> i], LAMBDA i : IsPositive(values[i]))

\* line 126: np.array([adj_momentum_values[i] for i in positive_indices])
positive_momentum(values) ==
    LET idx == positive_indices(values)
    IN  [k \in 1..Len(idx) |-> values[idx[k]]]

\* line 129: np.sum(positive_momentum)
total_momentum(values) == RSum(positive_momentum(values))

\* Variant: the selected feeds share the portfolio equally.
equal_weights(values) ==
    LET pm == positive_momentum(values)
    IN  [k \in 1..Len(pm) |-> Rat(1, Len(pm))]

\* line 131: positive_momentum / total_momentum
normalized_weights(values) ==
    LET pm == positive_momentum(values)
    IN  [k \in 1..Len(pm) |-> RDiv(pm[k], total_momentum(values))]

\* lines 122-135: np.zeros(len(self.datas)), then the normalized weights
\* written at the positive indices.
TargetWeights(values) ==
    LET idx == positive_indices(values)
    IN  IF Len(idx) > 0 /\ RGt(total_momentum(values), Zero)
        THEN [i \in Assets |->
                IF \E k \in 1..Len(idx) : idx[k] = i
                THEN normalized_weights(values)[CHOOSE k \in 1..Len(idx) : idx[k] = i]
                ELSE Zero]
        ELSE [i \in Assets |-> Zero]

RECURSIVE SumValue(_, _, _)
SumValue(pos, price, n) ==
    IF n = 0 THEN 0 ELSE pos[n] * price[n] + SumValue(pos, price, n - 1)

\* self.broker.getvalue(): cash plus the holdings marked at the close.
getvalue(c, pos, price) == c + SumValue(pos, price, N)

\* Variant: the current value is the value of all holdings.
diff_all_holdings(total_value, weights, pos, price, i) ==
    RSub(RMul(FromInt(total_value), weights[i]), FromInt(SumValue(pos, price, N)))

\* lines 155-164 for feed i.
target_value(total_value, weights, i) == RMul(FromInt(total_value), weights[i])
current_value(pos, price, i) == pos[i] * price[i]
diff_value(total_value, weights, pos, price, i) ==
    RSub(target_value(total_value, weights, i), FromInt(current_value(pos, price, i)))

\* Variant: a 10% band.
threshold_tenth(total_value) == Rat(total_value, 10)

\* line 167: total_value * 0.01
threshold(total_value) == Rat(total_value, ThresholdDen)

\* Variant: `abs(diff_value) >= threshold`.
ReachesThreshold(total_value, weights, pos, price, i) ==
    RLe(Rat(total_value, ThresholdDen),
        RAbs(RSub(RMul(FromInt(total_value), weights[i]), FromInt(pos[i] * price[i]))))

\* line 168: abs(diff_value) > threshold
ExceedsThreshold(total_value, weights, pos, price, i) ==
    RGt(RAbs(diff_value(total_value, weights, pos, price, i)), threshold(total_value))

\* Variant: twice the shares.
size_twice(total_value, weights, pos, price, i) ==
    2 * int(RDiv(diff_value(total_value, weights, pos, price, i), FromInt(price[i])))

\* line 170: int(diff_value / current_price)
size(total_value, weights, pos, price, i) ==
    int(RDiv(diff_value(total_value, weights, pos, price, i), FromInt(price[i])))

\* Variant: buy and sell are swapped.
OrderSwapped(total_value, weights, pos, price, i) ==
    IF ExceedsThreshold(total_value, weights, pos, price, i)
    THEN LET sz == size(total_value, weights, pos, price, i)
         IN  IF sz > 0 THEN <<[data |-> i, side |-> "sell", size |-> sz]>>
             ELSE IF sz < 0 THEN <<[data |-> i, side |-> "buy", size |-> -sz]>>
             ELSE <<>>
    ELSE <<>>

\* lines 168-177: the intent emitted for feed i, as a sequence of 0 or 1 orders.
OrderFor(total_value, weights, pos, price, i) ==
    IF ExceedsThreshold(total_value, weights, pos, price, i)
    THEN LET sz == size(total_value, weights, pos, price, i)
         IN  IF sz > 0 THEN <<[data |-> i, side |-> "buy", size |-> sz]>>
             ELSE IF sz < 0 THEN <<[data |-> i, side |-> "sell", size |-> -sz]>>
             ELSE <<>>
    ELSE <<>>

RECURSIVE BoughtSoFar(_, _, _, _, _)
\* the notional of the buys emitted for feeds 1..n.
BoughtSoFar(total_value, weights, pos, price, n) ==
    IF n = 0 THEN 0
    ELSE LET o == OrderFor(total_value, weights, pos, price, n)
             rest == BoughtSoFar(total_value, weights, pos, price, n - 1)
         IN  IF o # <<>> /\ o[1].side = "buy"
             THEN rest + o[1].size * price[n]
             ELSE rest

RECURSIVE RebalanceLoopSpending(_, _, _, _, _)
\* Variant: the value is read again for every feed, less the buys already
\* emitted (as if the cash were spent at once).
RebalanceLoopSpending(total_value, weights, pos, price, n) ==
    IF n = 0 THEN <<>>
    ELSE RebalanceLoopSpending(total_value, weights, pos, price, n - 1)
         \o OrderFor(total_value - BoughtSoFar(total_value, weights, pos, price, n - 1),
                     weights, pos, price, n)

RECURSIVE RebalanceLoop(_, _, _, _, _)
\* line 154: for i, data in enumerate(self.datas), feeds 1..n.
RebalanceLoop(total_value, weights, pos, price, n) ==
    IF n = 0 THEN <<>>
    ELSE RebalanceLoop(total_value, weights, pos, price, n - 1)
         \o OrderFor(total_value, weights, pos, price, n)

\* lines 145-177: the intents of one rebalance, in feed order.  The method
\* reads the broker (value, positions) and the closes and changes none of them.
_rebalance_portfolio(weights, c, pos, price) ==
    RebalanceLoop(getvalue(c, pos, price), weights, pos, price, N)

\* the volatilities line 110 divides by.
Divisors(len_ind, vols) ==
    {vols[i][1] : i \in {j \in Assets : len_ind > 0 /\ VolAboveEps(vols[j])}}

\* Variant: the counter is compared before it is incremented.
SkipBeforeIncrement(counter, days) == counter < days

\* lines 89-90: the counter after `+= 1` is below rebalance_days.
Skip(counter, days) == counter + 1 < days

\* lines 85-143: EtfMomentumStrategy.next, one call.
next ==
    /\ pc = "strategy"
    /\ bar >= MinPeriod
    /\ calls' = calls + 1
    /\ pc' = "feed"
    /\ IF Skip(rebalance_counter, rebalance_days)
       THEN /\ rebalance_counter' = rebalance_counter + 1
            /\ outcome' = "skip"
            /\ adj_momentum_values' = <<>>
            /\ target_weights' = <<>>
            /\ orders' = <<>>
            /\ divisors' = {}
       ELSE /\ rebalance_counter' = 0
            /\ IF bar < MomentumWindow
               THEN /\ outcome' = "cold"
                    /\ adj_momentum_values' = <<>>
                    /\ target_weights' = <<>>
                    /\ orders' = <<>>
                    /\ divisors' = {}
               ELSE LET values == AdjMomentumValues(bar, momentum, volatility)
                        weights == TargetWeights(values)
                    IN  /\ outcome' = "rebalance"
                        /\ adj_momentum_values' = values
                        /\ target_weights' = weights
                        /\ orders' = _rebalance_portfolio(weights, cash, position, close)
                        /\ divisors' = Divisors(bar, volatility)
    /\ UNCHANGED <<bar, open, close, momentum, volatility, rebalance_days,
                   cash, position>>
    /\ UNCHANGED <<analysis, others>>

\* backtrader's Strategy.prenext (not overridden): called instead of next()
\* while the indicators have not reached their minimum period.
prenext ==
    /\ pc = "strategy"
    /\ bar < MinPeriod
    /\ pc' = "feed"
    /\ outcome' = "prenext"
    /\ adj_momentum_values' = <<>>
    /\ target_weights' = <<>>
    /\ orders' = <<>>
    /\ divisors' = {}
    /\ UNCHANGED <<bar, open, close, momentum, volatility, rebalance_days,
                   rebalance_counter, calls, cash, position>>
    /\ UNCHANGED <<analysis, others>>

\* ------------------------------------------------- feed and broker (backtrader)
Val(x) == <<x>>
Vals(v) == [i \in Assets |-> Val(v[i])]
NoValue == [i \in Assets |-> NaN]
NoPosition == [i \in Assets |-> 0]

\* closes of the three feeds of the run: a rising, a flat and a falling one
\* (tests/etf_momentum_test.py setUp), and a reversal.
RunCloses == {<<100, 100, 100>>, <<110, 100, 95>>, <<90, 100, 105>>}

\* indicator readings of the run, <<momentum, volatility>> in units of 1e-8.
RunSignals ==
    { <<<<2000000, -1000000, 1000000>>, <<1000000, 2000000, 1000000>>>>,
      <<<<-1000000, -2000000, -500000>>, <<1000000, 1000000, 1000000>>>>,
      <<<<-1000000, 1000000, 0>>, <<1000000, 1000000, 0>>>>,
      <<<<1000000, 2000000, -1000000>>, <<1000000, 2000000, EPS>>>> }

\* The data feeds deliver the next bar and the indicators are updated:
\* they have a value from bar MinPeriod on and are NaN before.
NewBar ==
    /\ pc = "feed"
    /\ bar < MaxBars
    /\ bar' = bar + 1
    /\ pc' = "broker"
    /\ \E c \in RunCloses :
          /\ close' = c
          /\ \E o \in {close, c} : open' = IF bar = 0 THEN c ELSE o
    /\ IF bar + 1 >= MinPeriod
       THEN \E sig \in RunSignals :
               /\ momentum' = Vals(sig[1])
               /\ volatility' = Vals(sig[2])
       ELSE /\ momentum' = NoValue
            /\ volatility' = NoValue
    /\ UNCHANGED <<rebalance_days, rebalance_counter, calls, cash, position,
                   adj_momentum_values, target_weights, orders, outcome, divisors>>
    /\ UNCHANGED <<analysis, others>>

RECURSIVE Execute(_, _, _, _)
\* The broker executes the market orders of the previous bar at this bar's
\* open, in submission order: a sell is filled in full, a buy is filled in
\* full if the cash covers it and is rejected (Margin) otherwise.
\* The result is <<cash, position>>.
Execute(os, c, pos, price) ==
    IF os = <<>> THEN <<c, pos>>
    ELSE LET o == Head(os)
             cost == o.size * price[o.data]
         IN  IF o.side = "sell"
             THEN Execute(Tail(os), c + cost,
                          [pos EXCEPT ![o.data] = @ - o.size], price)
             ELSE IF cost <= c
                  THEN Execute(Tail(os), c - cost,
                               [pos EXCEPT ![o.data] = @ + o.size], price)
                  ELSE Execute(Tail(os), c, pos, price)

\* broker.next(): runs before the strategy callback of the new bar.
Broker ==
    /\ pc = "broker"
    /\ pc' = "strategy"
    /\ LET r == Execute(orders, cash, position, open)
       IN  /\ cash' = r[1]
           /\ position' = r[2]
    /\ orders' = <<>>
    /\ UNCHANGED <<bar, open, close, momentum, volatility, rebalance_days,
                   rebalance_counter, calls, adj_momentum_values,
                   target_weights, outcome, divisors>>
    /\ UNCHANGED <<analysis, others>>

\* ------------------------------------------------------------ the run
\* CustomAnalyzer.__init__ (analyzer.py lines 8-11): empty lists.
NewAnalyzer == [values |-> <<>>, returns |-> <<>>, dates |-> <<>>]

\* EtfMomentumSBacktrader.__init__ (etf_momentum_backtrader.py lines 34-35),
\* and what its last call of next() did.
NewCopy ==
    [rebalance_counter |-> 0, adj_momentum_values |-> <<>>,
     target_weights |-> <<>>, orders |-> <<>>, outcome |-> "none"]

\* no baseline strategy and no fetch running.
NoHold == [variant |-> "none"]
NoFetch == [next |-> 0]

\* no metric computed yet.
NoMetrics ==
    [annualized_return |-> <<>>, sharpe_ratio |-> <<>>, max_drawdown |-> <<>>,
     sortino_ratio |-> <<>>, win_rate |-> <<>>, drawdown |-> <<>>]

\* the PctChange lines before the first bar.
NoReturns == [i \in Assets |-> <<>>]

\* State after construction (__init__, lines 46-83) and broker.setcash.
Init ==
    /\ pc = "feed"
    /\ bar = 0
    /\ open = NoPosition
    /\ close = NoPosition
    /\ momentum = NoValue
    /\ volatility = NoValue
    /\ rebalance_days \in 1..MaxRebalanceDays
    /\ rebalance_counter = 0
    /\ calls = 0
    /\ cash = InitialCash
    /\ position = NoPosition
    /\ adj_momentum_values = <<>>
    /\ target_weights = <<>>
    /\ orders = <<>>
    /\ outcome = "none"
    /\ divisors = {}
    /\ ret = NoReturns
    /\ custom = NewAnalyzer
    /\ metrics = NoMetrics
    /\ copy = NewCopy
    /\ hold = NoHold
    /\ fetch = NoFetch

Next == NewBar \/ Broker \/ prenext \/ next

Spec == Init /\ [][Next]_vars

\* ------------------------------------------- one call of next(), any signal
\* momentum readings, in units of 1e-8: -0.01, 0, 0.01, 0.02.
InputMomentum == {-1000000, 0, 1000000, 2000000}
\* volatility readings, in units of 1e-8: 0, 1e-8, 2e-8, 0.01, 0.02.
InputVolatility == {0, EPS, EPS + 1, 1000000, 2000000}

SmallPrices == {1, 3}
SmallPositions == {0, 1, 2, 33}
SmallCash == {0, 1, 99, 100}
SignalCash == {0, 1, 5}

\* The strategy about to run next() on a warm rebalance bar.
AtCall ==
    /\ pc = "strategy"
    /\ bar = MinPeriod
    /\ rebalance_days = 1
    /\ rebalance_counter = 0
    /\ calls = 0
    /\ adj_momentum_values = <<>>
    /\ target_weights = <<>>
    /\ orders = <<>>
    /\ outcome = "none"
    /\ divisors = {}
    /\ ret = NoReturns
    /\ custom = NewAnalyzer
    /\ metrics = NoMetrics
    /\ copy = NewCopy
    /\ hold = NoHold
    /\ fetch = NoFetch

\* Every indicator reading, on a portfolio that is all cash.
InitSignal ==
    /\ AtCall
    /\ momentum \in [Assets -> {Val(m) : m \in InputMomentum}]
    /\ volatility \in [Assets -> {Val(v) : v \in InputVolatility}]
    /\ open = [i \in Assets |-> 1]
    /\ close = [i \in Assets |-> 1]
    /\ cash \in SignalCash
    /\ position = NoPosition

SpecSignal == InitSignal /\ [][next]_vars

\* ---------------------------------------- one call of next(), any portfolio
\* indicator readings giving the weights [2/3, 0, 1/3], [0, 0, 0], [1, 0, 0],
\* [1/2, 1/2, 0], [0, 0, 0] (flat feeds) and [0, 0, 1].
RebalanceSignals ==
    { <<<<2000000, -1000000, 1000000>>, <<1000000, 2000000, 1000000>>>>,
      <<<<-1000000, -2000000, -500000>>, <<1000000, 1000000, 1000000>>>>,
      <<<<1000000, -1000000, 0>>, <<1000000, 1000000, 1000000>>>>,
      <<<<1000000, 1000000, -1000000>>, <<1000000, 1000000, 1000000>>>>,
      <<<<1000000, 1000000, 1000000>>, <<0, EPS, 0>>>>,
      <<<<0, -1000000, 2000000>>, <<1000000, 1000000, 2000000>>>> }

\* portfolios worth 100000 whose first holding is worth `held`.
GateHeld == {500, 1500, 48500, 49500, 98500, 99500}
GatePrices == {1, 100, 500, 970, 985, 995, 1500, 1940, 1970, 1990}
GateTotal == 100000

InitRebalance ==
    /\ AtCall
    /\ \E sig \in RebalanceSignals :
          /\ momentum = Vals(sig[1])
          /\ volatility = Vals(sig[2])
    /\ \/ /\ close \in [Assets -> SmallPrices]
          /\ position \in [Assets -> SmallPositions]
          /\ cash \in SmallCash
       \/ \E held \in GateHeld, p \in GatePrices :
             /\ held % p = 0
             /\ close \in {c \in [Assets -> GatePrices \cup {2000}] :
                             c[1] = p /\ c[2] \in {100, 2000} /\ c[3] = 100}
             /\ position = [i \in Assets |-> IF i = 1 THEN held \div p ELSE 0]
             /\ cash = GateTotal - held
    /\ open = close

SpecRebalance == InitRebalance /\ [][next]_vars

\* ------------------------------------------------------------ CustomAnalyzer
\* the strategy's part of the state.
run == <<pc, bar, open, close, momentum, volatility, rebalance_days,
         rebalance_counter, calls, cash, position, adj_momentum_values,
         target_weights, orders, outcome, divisors>>

\* Variant: only the cash is recorded.
recorded_cash(c, pos, price) == c

\* analyzer.py line 15: self.strategy.broker.getvalue().
recorded_value(c, pos, price) == getvalue(c, pos, price)

\* analyzer.py lines 13-15: CustomAnalyzer.next, once per bar after the
\* strategy callback (backtrader's Analyzer.prenext calls next as well).
analyzer_next ==
    /\ pc = "feed"
    /\ Len(custom.values) < bar
    /\ custom' = [custom EXCEPT
                     !.dates = Append(@, bar),
                     !.values = Append(@, recorded_value(cash, position, close))]
    /\ UNCHANGED <<run, ret, metrics, others>>

\* analyzer.py line 20: np.diff(values_array) / values_array[:-1].
diff_returns(values) ==
    [t \in 1..(IF values = <<>> THEN 0 ELSE Len(values) - 1) |->
        Rat(values[t + 1] - values[t], values[t])]

\* Variant: the last date is dropped.
drop_last(dates) == IF dates = <<>> THEN <<>> ELSE SubSeq(dates, 1, Len(dates) - 1)

\* analyzer.py line 23: self.dates[1:].
drop_first(dates) == IF dates = <<>> THEN <<>> ELSE Tail(dates)

\* analyzer.py lines 17-23: CustomAnalyzer.stop, at the end of the run.
stop ==
    /\ pc = "feed"
    /\ Len(custom.values) = bar
    /\ pc' = "report"
    /\ custom' = [custom EXCEPT !.returns = diff_returns(custom.values),
                                !.dates = drop_first(@)]
    /\ UNCHANGED <<bar, open, close, momentum, volatility, rebalance_days,
                   rebalance_counter, calls, cash, position,
                   adj_momentum_values, target_weights, orders, outcome,
                   divisors, ret, metrics, others>>

\* ----------------------------------------------------- PerformanceCalculator
\* (strategy/performance_calculator.py, the formulas used without empyrical,
\* applied to pd.Series(custom.returns)).  A float result is <<"nan">>,
\* <<"num", r>> for the rational r, or a term kept symbolic where the code
\* takes a root: <<"sqrt", v>> is sqrt(v), <<"ratio", m, v>> is
\* sqrt(252) * m / sqrt(v), <<"pow", b, e>> is b ** e - 1.
TradingDays == 252

NaNf == <<"nan">>
Num(r) == <<"num", r>>
IsNaN(x) == x[1] = "nan"

RMax(a, b) == IF RLt(a, b) THEN b ELSE a
RMin(a, b) == IF RLt(b, a) THEN b ELSE a

\* 1 + returns.
one_plus(returns) == [t \in 1..Len(returns) |-> RAdd(One, returns[t])]

RECURSIVE prod(_)
\* Series.prod(): 1 for the empty series.
prod(xs) == IF xs = <<>> THEN One ELSE RMul(Head(xs), prod(Tail(xs)))

\* Series.cumprod().
cumprod(xs) == [t \in 1..Len(xs) |-> prod(SubSeq(xs, 1, t))]

RECURSIVE series_max(_)
series_max(xs) ==
    IF Len(xs) = 1 THEN xs[1] ELSE RMax(Head(xs), series_max(Tail(xs)))

RECURSIVE series_min(_)
series_min(xs) ==
    IF Len(xs) = 1 THEN xs[1] ELSE RMin(Head(xs), series_min(Tail(xs)))

\* Variant: the maximum of the whole series at every index.
overall_max(xs) == [t \in 1..Len(xs) |-> series_max(xs)]

\* Series.expanding().max(): the running maximum.
expanding_max(xs) == [t \in 1..Len(xs) |-> series_max(SubSeq(xs, 1, t))]

\* Series.min(): NaN for the empty series.
min(xs) == IF xs = <<>> THEN NaNf ELSE Num(series_min(xs))

\* Series.mean(): NaN for the empty series.
mean(xs) == IF xs = <<>> THEN NaNf ELSE Num(RDiv(RSum(xs), FromInt(Len(xs))))

\* the sample variance (ddof = 1) of at least two values.
variance(xs) ==
    LET m == RDiv(RSum(xs), FromInt(Len(xs)))
        sq == [t \in 1..Len(xs) |-> RMul(RSub(xs[t], m), RSub(xs[t], m))]
    IN  RDiv(RSum(sq), FromInt(Len(xs) - 1))

\* Series.std(): the sample standard deviation, NaN below two values.
std(xs) == IF Len(xs) < 2 THEN NaNf ELSE <<"sqrt", variance(xs)>>

\* `x.std() == 0`: False for NaN.
IsZeroStd(sd) == sd[1] = "sqrt" /\ sd[2] = Zero

\* np.sqrt(252) * m / sd: NaN if m or sd is NaN.
scaled_ratio(m, sd) ==
    IF IsNaN(m) \/ IsNaN(sd) THEN NaNf ELSE <<"ratio", m[2], sd[2]>>

\* lines 42, 71: returns - rate / 252.
excess(returns, rate) ==
    [t \in 1..Len(returns) |->
        RSub(returns[t], RDiv(rate, FromInt(TradingDays)))]

\* lines 23-26: (1 + total_return) ** (1 / years) - 1 if years > 0 else 0.
annualized_return(returns) ==
    LET total_return == RSub(prod(one_plus(returns)), One)
        days == Len(returns)
    IN  IF days > 0
        THEN <<"pow", RAdd(One, total_return), Rat(TradingDays, days)>>
        ELSE Num(Zero)

\* lines 42-45.
sharpe_ratio(returns, risk_free) ==
    LET excess_returns == excess(returns, risk_free)
    IN  IF IsZeroStd(std(excess_returns))
        THEN Num(Zero)
        ELSE scaled_ratio(mean(excess_returns), std(excess_returns))

\* lines 53-56.
max_drawdown(returns) ==
    LET cum_returns == cumprod(one_plus(returns))
        running_max == expanding_max(cum_returns)
        drawdown == [t \in 1..Len(returns) |->
                        RDiv(RSub(cum_returns[t], running_max[t]), running_max[t])]
    IN  min(drawdown)

\* lines 71-75.
sortino_ratio(returns, required_return) ==
    LET excess_returns == excess(returns, required_return)
        downside_returns == SelectSeq(excess_returns, LAMBDA x : RLt(x, Zero))
    IN  IF Len(downside_returns) = 0 \/ IsZeroStd(std(downside_returns))
        THEN Num(Zero)
        ELSE scaled_ratio(mean(excess_returns), std(downside_returns))

\* line 80: (returns > 0).sum() / len(returns); numpy gives nan for 0 / 0
\* (with a RuntimeWarning, no exception).
win_rate(returns) ==
    LET wins == Len(SelectSeq(returns, LAMBDA x : RGt(x, Zero)))
    IN  IF Len(returns) = 0 THEN NaNf ELSE Num(Rat(wins, Len(returns)))

\* lines 85-88: the drawdown at every index.
calc_drawdown(returns) ==
    LET cum == cumprod(one_plus(returns))
        running_max == expanding_max(cum)
    IN  [t \in 1..Len(returns) |->
            RDiv(RSub(cum[t], running_max[t]), running_max[t])]

\* backtest_etf_momentum.py line 408: pd.Series(...analyzers.custom.returns).
strategy_returns == custom.returns

\* One call of the calculator on the returns of the finished run; the
\* report calls each of them once (backtest_etf_momentum.py lines 416-451,
\* 532).
AnnualizedReturn ==
    /\ pc = "report"
    /\ metrics.annualized_return = <<>>
    /\ metrics' = [metrics EXCEPT
                     !.annualized_return = <<annualized_return(strategy_returns)>>]
    /\ UNCHANGED <<run, ret, custom, others>>

SharpeRatio ==
    /\ pc = "report"
    /\ metrics.sharpe_ratio = <<>>
    /\ metrics' = [metrics EXCEPT
                     !.sharpe_ratio = <<sharpe_ratio(strategy_returns, Zero)>>]
    /\ UNCHANGED <<run, ret, custom, others>>

MaxDrawdown ==
    /\ pc = "report"
    /\ metrics.max_drawdown = <<>>
    /\ metrics' = [metrics EXCEPT
                     !.max_drawdown = <<max_drawdown(strategy_returns)>>]
    /\ UNCHANGED <<run, ret, custom, others>>

SortinoRatio ==
    /\ pc = "report"
    /\ metrics.sortino_ratio = <<>>
    /\ metrics' = [metrics EXCEPT
                     !.sortino_ratio = <<sortino_ratio(strategy_returns, Zero)>>]
    /\ UNCHANGED <<run, ret, custom, others>>

WinRate ==
    /\ pc = "report"
    /\ metrics.win_rate = <<>>
    /\ metrics' = [metrics EXCEPT !.win_rate = <<win_rate(strategy_returns)>>]
    /\ UNCHANGED <<run, ret, custom, others>>

CalcDrawdown ==
    /\ pc = "report"
    /\ metrics.drawdown = <<>>
    /\ metrics' = [metrics EXCEPT !.drawdown = <<calc_drawdown(strategy_returns)>>]
    /\ UNCHANGED <<run, ret, custom, others>>

\* ------------------------------------------- the calculator, any value series
\* longest return series.
MaxLen == 3

\* portfolio values the analyzer may have recorded.
PerfValues == {100, 200, 400}

RECURSIVE SeqsUpTo(_, _)
\* the sequences over S of length at most n.
SeqsUpTo(S, n) ==
    IF n = 0 THEN {<<>>}
    ELSE LET shorter == SeqsUpTo(S, n - 1)
         IN  shorter \cup {Append(s, x) : s \in shorter, x \in S}

\* The end of a run whose analyzer recorded any series of values.
InitPerf ==
    /\ pc = "feed"
    /\ custom \in {[values |-> v, returns |-> <<>>,
                      dates |-> [t \in 1..Len(v) |-> t]] :
                      v \in SeqsUpTo(PerfValues, MaxLen + 1)}
    /\ bar = Len(custom.values)
    /\ open = [i \in Assets |-> 1]
    /\ close = [i \in Assets |-> 1]
    /\ momentum = NoValue
    /\ volatility = NoValue
    /\ rebalance_days = 1
    /\ rebalance_counter = 0
    /\ calls = 0
    /\ cash = IF custom.values = <<>> THEN InitialCash
              ELSE custom.values[Len(custom.values)]
    /\ position = NoPosition
    /\ adj_momentum_values = <<>>
    /\ target_weights = <<>>
    /\ orders = <<>>
    /\ outcome = "none"
    /\ divisors = {}
    /\ ret = NoReturns
    /\ metrics = NoMetrics
    /\ copy = NewCopy
    /\ hold = NoHold
    /\ fetch = NoFetch

NextPerf ==
    \/ stop
    \/ AnnualizedReturn
    \/ SharpeRatio
    \/ MaxDrawdown
    \/ SortinoRatio
    \/ WinRate
    \/ CalcDrawdown

SpecPerf == InitPerf /\ [][NextPerf]_vars

\* ------------------------------------------------- a strictly rising feed
\* The indicators of __init__ (etf_momentum.py lines 56-79) computed from
\* the closes: PctChange(period=1), and its SimpleMovingAverage and
\* StandardDeviation (backtrader's, the population one) over the window.
\* one unit of 1e-8 in 1.
Units == 100000000

\* (close - previous close) / previous close.
PctChange(prev, c) == Rat(c - prev, prev)

\* the last MomentumWindow values of a line.
Window(line) == IF Len(line) > MomentumWindow THEN Tail(line) ELSE line

RECURSIVE Newton(_, _)
Newton(n, x) ==
    LET y == (x + n \div x) \div 2
    IN  IF y >= x THEN x ELSE Newton(n, y)

\* the integer square root.
isqrt(n) == IF n = 0 THEN 0 ELSE Newton(n, n)

\* the mean of the window, in units of 1e-8.
SimpleMovingAverage(window) ==
    Floor(RMul(RDiv(RSum(window), FromInt(Len(window))), FromInt(Units)))

\* sqrt(mean(x^2) - mean(x)^2) of the window, in units of 1e-8: for the
\* variance p / q it is sqrt(p * q) / q, the root taken to four digits.
StandardDeviation(window) ==
    LET m == RDiv(RSum(window), FromInt(Len(window)))
        sq == [t \in 1..Len(window) |-> RMul(RSub(window[t], m), RSub(window[t], m))]
        v == RDiv(RSum(sq), FromInt(Len(window)))
    IN  (isqrt(v[1] * v[2] * 10000) * (Units \div 100)) \div v[2]

\* the rising feed grows by one of these factors every bar; the other two
\* feeds are flat (tests/etf_momentum_test.py setUp, the flat feed).
GrowthFactors == {2, 3}
FirstClose == 10
FlatClose == 100

\* The feeds deliver the next bar of the rising run and the indicators are
\* updated from the closes.
RisingBar ==
    /\ pc = "feed"
    /\ Len(custom.values) = bar
    /\ bar < MaxBars
    /\ bar' = bar + 1
    /\ pc' = "broker"
    /\ \E g \in GrowthFactors :
          LET c == [i \in Assets |->
                       IF i # 1 THEN FlatClose
                       ELSE IF bar = 0 THEN FirstClose ELSE close[1] * g]
              line == [i \in Assets |->
                          IF bar = 0 THEN <<>>
                          ELSE Window(Append(ret[i], PctChange(close[i], c[i])))]
          IN  /\ close' = c
              /\ \E o \in {close, c} : open' = IF bar = 0 THEN c ELSE o
              /\ ret' = line
              /\ IF bar + 1 >= MinPeriod
                 THEN /\ momentum' = [i \in Assets |-> Val(SimpleMovingAverage(line[i]))]
                      /\ volatility' = [i \in Assets |-> Val(StandardDeviation(line[i]))]
                 ELSE /\ momentum' = NoValue
                      /\ volatility' = NoValue
    /\ UNCHANGED <<rebalance_days, rebalance_counter, calls, cash, position,
                   adj_momentum_values, target_weights, orders, outcome,
                   divisors, custom, metrics, others>>

NextUptrend ==
    \/ RisingBar
    \/ Broker
    \/ prenext
    \/ next
    \/ analyzer_next
    \/ stop
    \/ AnnualizedReturn
    \/ CalcDrawdown

SpecUptrend == Init /\ [][NextUptrend]_vars

\* ------------------------------------------------------------ fetch_etf_data
\* (utils/fetch_data.py).  What the file system and the data source do for
\* one symbol is the environment's choice: the cache file is missing,
\* unreadable (read_pickle raises), empty or holds data; the download raises,
\* returns an empty frame or returns data; writing the cache works or raises.
Symbols == 1..N
CacheStates == {"missing", "unreadable", "empty", "data"}
DownloadResults == {"raises", "empty", "data"}
WriteResults == {"ok", "raises"}

\* Variant: any readable cache file is used, empty or not.
use_readable_cache(c) == c \in {"empty", "data"}

\* lines 39-45: the cache file exists, is read and is not empty.
use_cache(c) == c = "data"

\* Variant: the download is kept only if the cache could be written.
keep_if_cached(d, w) == d = "data" /\ w = "ok"

\* lines 51-53: the download returned and is not empty; the frame is put
\* into data_dict before the cache is written.
keep_download(d, w) == d = "data"

\* lines 38-63: one iteration of the loop.  Every call that can raise is
\* inside a try whose handler only prints, so no exception leaves the
\* iteration.  download and write are "none" if not attempted.
fetch_one(c, d, w) ==
    IF use_cache(c)
    THEN [cache |-> c, download |-> "none", write |-> "none", kept |-> TRUE,
          raised |-> FALSE]
    ELSE [cache |-> c, download |-> d,
          write |-> IF d = "data" THEN w ELSE "none",
          kept |-> keep_download(d, w),
          raised |-> FALSE]

\* lines 30-32: data_dict = {} and the loop about to start.
StartFetch ==
    [next |-> 1, data_dict |-> {}, log |-> <<>>, raised |-> FALSE,
     returned |-> FALSE]

\* lines 32-63: the loop handles the next symbol.
FetchSymbol ==
    /\ fetch.next \in Symbols
    /\ ~fetch.raised
    /\ \E c \in CacheStates, d \in DownloadResults, w \in WriteResults :
          LET r == fetch_one(c, d, w)
          IN  fetch' = [fetch EXCEPT
                          !.next = @ + 1,
                          !.data_dict = IF r.kept THEN @ \cup {fetch.next} ELSE @,
                          !.log = Append(@, [symbol |-> fetch.next,
                                             cache |-> r.cache,
                                             download |-> r.download,
                                             write |-> r.write]),
                          !.raised = r.raised]
    /\ UNCHANGED <<run, analysis, copy, hold>>

\* line 65: return data_dict.
FetchReturn ==
    /\ fetch.next = N + 1
    /\ ~fetch.raised
    /\ ~fetch.returned
    /\ fetch' = [fetch EXCEPT !.returned = TRUE]
    /\ UNCHANGED <<run, analysis, copy, hold>>

\* fetch_etf_data called before any run.
InitFetch ==
    /\ pc = "feed"
    /\ bar = 0
    /\ open = NoPosition
    /\ close = NoPosition
    /\ momentum = NoValue
    /\ volatility = NoValue
    /\ rebalance_days = 1
    /\ rebalance_counter = 0
    /\ calls = 0
    /\ cash = InitialCash
    /\ position = NoPosition
    /\ adj_momentum_values = <<>>
    /\ target_weights = <<>>
    /\ orders = <<>>
    /\ outcome = "none"
    /\ divisors = {}
    /\ ret = NoReturns
    /\ custom = NewAnalyzer
    /\ metrics = NoMetrics
    /\ copy = NewCopy
    /\ hold = NoHold
    /\ fetch = StartFetch

NextFetch == FetchSymbol \/ FetchReturn

SpecFetch == InitFetch /\ [][NextFetch]_vars

\* ------------------------------------------------- EtfMomentumSBacktrader
\* (strategy/etf_momentum_backtrader.py; the class EtfMomentumStrategy of
\* etf_momentum/backtest_etf_momentum.py lines 205-301 is the same text.)
\* Variant: the counter is compared with `<= 1`.
bt_skip_daily(counter) == counter + 1 <= 1

\* lines 40-41: the counter after `+= 1` is below 1.
bt_skip(counter) == counter + 1 < 1

\* lines 53-59: mom / vol if vol > 1e-8 else 0.0, and 0.0 without a reading.
bt_adj_mom(len_ind, mom, vol) ==
    IF len_ind > 0
    THEN IF vol # NaN /\ vol[1] > EPS
         THEN IF mom = NaN THEN NaN ELSE Rat(mom[1], vol[1])
         ELSE Zero
    ELSE Zero

\* line 62: the feeds whose score is > 0.
bt_positive(values) == {i \in Assets : values[i] # NaN /\ RGt(values[i], Zero)}

RECURSIVE bt_sum(_, _)
\* line 67: np.sum over the positive scores of feeds 1..n, in feed order.
bt_sum(values, n) ==
    IF n = 0 THEN Zero
    ELSE RAdd(bt_sum(values, n - 1),
              IF n \in bt_positive(values) THEN values[n] ELSE Zero)

\* lines 63-72: zeros, and score / total at the positive feeds.
bt_target_weights(values) ==
    LET total == bt_sum(values, N)
    IN  [i \in Assets |->
            IF bt_positive(values) # {} /\ RGt(total, Zero) /\ i \in bt_positive(values)
            THEN RDiv(values[i], total)
            ELSE Zero]

RECURSIVE bt_rebalance_loop(_, _, _, _, _)
\* lines 87-103: the loop over the feeds 1..n.
bt_rebalance_loop(total, weights, pos, price, n) ==
    IF n = 0 THEN <<>>
    ELSE LET target == RMul(FromInt(total), weights[n])
             current == FromInt(pos[n] * price[n])
             diff == RSub(target, current)
             sz == int(RDiv(diff, FromInt(price[n])))
         IN  bt_rebalance_loop(total, weights, pos, price, n - 1)
             \o (IF RGt(RAbs(diff), RMul(FromInt(total), Rat(1, 100)))
                 THEN IF sz > 0 THEN <<[data |-> n, side |-> "buy", size |-> sz]>>
                      ELSE IF sz < 0 THEN <<[data |-> n, side |-> "sell", size |-> -sz]>>
                      ELSE <<>>
                 ELSE <<>>)

\* lines 83-103.
bt_rebalance_portfolio(weights, c, pos, price) ==
    bt_rebalance_loop(getvalue(c, pos, price), weights, pos, price, N)

\* lines 37-81: EtfMomentumSBacktrader.next, one call, on the bar and the
\* portfolio EtfMomentumStrategy is about to see.
bt_next ==
    /\ pc = "strategy"
    /\ bar >= MinPeriod
    /\ copy.outcome = "none"
    /\ IF bt_skip(copy.rebalance_counter)
       THEN copy' = [copy EXCEPT !.rebalance_counter = @ + 1, !.outcome = "skip"]
       ELSE IF bar < MomentumWindow
            THEN copy' = [copy EXCEPT !.rebalance_counter = 0, !.outcome = "cold"]
            ELSE LET scores == [i \in Assets |->
                                   bt_adj_mom(bar, momentum[i], volatility[i])]
                     weights == bt_target_weights(scores)
                 IN  copy' = [rebalance_counter |-> 0,
                              adj_momentum_values |-> scores,
                              target_weights |-> weights,
                              orders |-> bt_rebalance_portfolio(weights, cash,
                                                                position, close),
                              outcome |-> "rebalance"]
    /\ UNCHANGED <<run, analysis, hold, fetch>>

\* both strategies called on the same warm bar with the same portfolio.
NextCopies == bt_next \/ next

SpecCopies == InitRebalance /\ [][NextCopies]_vars

\* ---------------------------------------------------- buy-and-hold baselines
\* (strategy/just_buy_hold.py and BuyHoldStrategy of
\* etf_momentum/backtest_etf_momentum.py.)  hold is one baseline strategy with
\* its broker account: hold.orders[k].status is the status of the last
\* notification delivered for order k, "Created" before the first one.
MaxHoldBars == 3
HoldCash == 1000
HoldPrices == {50, 100}
Variants == {"JustBuyHold", "BuyHold"}
Alive == {"Created", "Submitted", "Accepted"}
Failed == {"Canceled", "Margin", "Rejected"}

\* the baseline after __init__, with the broker's starting cash.
StartHold(v) ==
    [variant |-> v, order |-> 0, bought |-> FALSE, cash |-> HoldCash,
     position |-> 0, close |-> 0, bars |-> 0, orders |-> <<>>,
     fills |-> 0, failed |-> 0]

\* the orders of the baseline the broker has not finished with.
outstanding(h) == {k \in 1..Len(h.orders) : h.orders[k].status \in Alive}

\* just_buy_hold.py line 36: int((cash * 0.99) / price).
jbh_size(c, price) == int(RDiv(RMul(FromInt(c), Rat(99, 100)), FromInt(price)))

\* backtest_etf_momentum.py line 382: int(cash / close).
bh_size(c, price) == int(RDiv(FromInt(c), FromInt(price)))

\* Strategy.buy(size): a new order at the broker, or None for size 0.
buy(h, sz) ==
    IF sz = 0 THEN h.orders
    ELSE Append(h.orders, [size |-> sz, status |-> "Created"])

\* JustBuyHoldStrategy.next on a new bar closing at price.
jbh_next ==
    /\ hold.variant = "JustBuyHold"
    /\ hold.bars < MaxHoldBars
    /\ \E price \in HoldPrices :
          LET h == [hold EXCEPT !.bars = @ + 1, !.close = price]
              sz == jbh_size(hold.cash, price)
          IN  IF hold.order # 0
              THEN hold' = h
              ELSE IF ~hold.bought /\ sz > 0
                   THEN hold' = [h EXCEPT !.orders = buy(h, sz),
                                          !.order = Len(h.orders) + 1]
                   ELSE hold' = h
    /\ UNCHANGED <<run, analysis, copy, fetch>>

\* BuyHoldStrategy.next on a new bar closing at price.
bh_next ==
    /\ hold.variant = "BuyHold"
    /\ hold.bars < MaxHoldBars
    /\ \E price \in HoldPrices :
          LET h == [hold EXCEPT !.bars = @ + 1, !.close = price]
          IN  IF ~hold.bought
              THEN hold' = [h EXCEPT !.orders = buy(h, bh_size(hold.cash, price)),
                                     !.bought = TRUE]
              ELSE hold' = h
    /\ UNCHANGED <<run, analysis, copy, fetch>>

\* the statuses the broker can report next for order k: a market order is
\* filled at the price of the current bar when the cash pays for it.
following(h, k) ==
    LET o == h.orders[k]
    IN  IF o.status = "Created" THEN {"Submitted"}
        ELSE IF o.status = "Submitted" THEN {"Accepted", "Rejected", "Canceled"}
        ELSE IF o.status = "Accepted"
             THEN {"Canceled"} \cup (IF o.size * h.close <= h.cash
                                     THEN {"Completed"} ELSE {"Margin"})
        ELSE {}

\* the broker's account and order book once order k has turned to status.
report(h, k, status) ==
    [h EXCEPT !.orders[k].status = status,
              !.cash = IF status = "Completed" THEN @ - h.orders[k].size * h.close ELSE @,
              !.position = IF status = "Completed" THEN @ + h.orders[k].size ELSE @,
              !.fills = IF status = "Completed" THEN @ + 1 ELSE @,
              !.failed = IF status \in Failed THEN @ + 1 ELSE @]

\* JustBuyHoldStrategy.notify_order (lines 11-22) for one notification; the
\* BuyHoldStrategy copy defines no notify_order.
notify_order ==
    /\ \E k \in outstanding(hold) : \E status \in following(hold, k) :
          LET h == report(hold, k, status)
          IN  IF hold.variant = "JustBuyHold"
              THEN hold' = [h EXCEPT !.bought = IF status = "Completed" THEN TRUE ELSE @,
                                     !.order = 0]
              ELSE hold' = h
    /\ UNCHANGED <<run, analysis, copy, fetch>>

InitHold ==
    /\ pc = "feed"
    /\ bar = 0
    /\ open = NoPosition
    /\ close = NoPosition
    /\ momentum = NoValue
    /\ volatility = NoValue
    /\ rebalance_days = 1
    /\ rebalance_counter = 0
    /\ calls = 0
    /\ cash = InitialCash
    /\ position = NoPosition
    /\ adj_momentum_values = <<>>
    /\ target_weights = <<>>
    /\ orders = <<>>
    /\ outcome = "none"
    /\ divisors = {}
    /\ ret = NoReturns
    /\ custom = NewAnalyzer
    /\ metrics = NoMetrics
    /\ copy = NewCopy
    /\ fetch = NoFetch
    /\ \E v \in Variants : hold = StartHold(v)

NextHold == jbh_next \/ bh_next \/ notify_order

SpecHold == InitHold /\ [][NextHold]_vars

\* ------------------------------------------------ a bar that changes nothing
\* The data feeds deliver a bar on which every close and every indicator
\* reading is what it was, and which opens at that close: the orders of the
\* previous bar are executed at the prices they were sized with.
SameBar ==
    /\ pc = "feed"
    /\ bar < MaxBars
    /\ bar' = bar + 1
    /\ pc' = "broker"
    /\ open' = close
    /\ UNCHANGED <<close, momentum, volatility>>
    /\ UNCHANGED <<rebalance_days, rebalance_counter, calls, cash, position,
                   adj_momentum_values, target_weights, orders, outcome, divisors>>
    /\ UNCHANGED <<analysis, others>>

NextSettled == next \/ SameBar \/ Broker

\* rebalances at unchanged prices and readings, from any portfolio.
SpecSettled == InitRebalance /\ [][NextSettled]_vars

\* ================================================================ claims
\* next() has returned from a call that computed weights and rebalanced.
Rebalanced == pc = "feed" /\ outcome = "rebalance"

Weights == [i \in Assets |-> target_weights[i]]
SomePositive == \E i \in Assets : IsPositive(adj_momentum_values[i])

RECURSIVE SumPositive(_, _)
\* the sum of the strictly positive scores of feeds 1..n.
SumPositive(values, n) ==
    IF n = 0 THEN Zero
    ELSE IF IsPositive(values[n])
         THEN RAdd(SumPositive(values, n - 1), values[n])
         ELSE SumPositive(values, n - 1)

\* C1: whatever the scores, the target weights computed by next() are all
\* >= 0 and they sum to exactly 1 when some score is strictly positive and
\* to exactly 0 otherwise.
C1_WeightsNonNegativeSumOneOrZero ==
    Rebalanced =>
        /\ \A i \in Assets : RLe(Zero, target_weights[i])
        /\ RSum(Weights) = IF SomePositive THEN One ELSE Zero

\* a call with positive, zero and negative scores at once.
C1_Witness ==
    /\ Rebalanced
    /\ \E i, j, k \in Assets :
          /\ IsPositive(adj_momentum_values[i])
          /\ adj_momentum_values[j] = Zero
          /\ RLt(adj_momentum_values[k], Zero)
          /\ RGt(target_weights[i], Zero)

\* a call in which no score is positive.
C1_WitnessAllCash ==
    /\ Rebalanced
    /\ ~SomePositive
    /\ \E k \in Assets : RLt(adj_momentum_values[k], Zero)

\* C2: a feed with a strictly positive score gets score / (sum of the
\* strictly positive scores), a feed with a zero or negative score gets
\* exactly 0; momentum [0.02, -0.01, 0.01] with volatility
\* [0.01, 0.02, 0.01] gives scores [2, -0.5, 1] and weights [2/3, 0, 1/3].
C2_WeightIsScoreShare ==
    Rebalanced =>
        /\ \A i \in Assets :
              target_weights[i] =
                 IF IsPositive(adj_momentum_values[i])
                 THEN RDiv(adj_momentum_values[i], SumPositive(adj_momentum_values, N))
                 ELSE Zero
        /\ ( /\ momentum = Vals(<<2000000, -1000000, 1000000>>)
             /\ volatility = Vals(<<1000000, 2000000, 1000000>>) )
           => /\ adj_momentum_values = <<<<2, 1>>, <<-1, 2>>, <<1, 1>>>>
              /\ target_weights = <<<<2, 3>>, <<0, 1>>, <<1, 3>>>>

\* the call of the example.
C2_Witness ==
    /\ Rebalanced
    /\ momentum = Vals(<<2000000, -1000000, 1000000>>)
    /\ volatility = Vals(<<1000000, 2000000, 1000000>>)
    /\ target_weights[1] = <<2, 3>>

\* C3: the score of a feed is momentum / volatility when volatility > 1e-8
\* and 0 when volatility <= 1e-8 (a flat feed included); the call divides
\* only by volatilities above 1e-8, never by zero.
C3_ScoreGuardsDivision ==
    Rebalanced =>
        /\ \A i \in Assets :
              adj_momentum_values[i] =
                 IF volatility[i][1] > EPS
                 THEN Rat(momentum[i][1], volatility[i][1])
                 ELSE Zero
        /\ \A d \in divisors : d > EPS

\* a call with a flat feed, a feed at exactly 1e-8 and a feed above it, all
\* three with a non-zero momentum.
C3_Witness ==
    /\ Rebalanced
    /\ \E i, j, k \in Assets :
          /\ volatility[i] = Val(0) /\ momentum[i] # Val(0)
          /\ volatility[j] = Val(EPS) /\ momentum[j] # Val(0)
          /\ volatility[k] = Val(EPS + 1) /\ momentum[k] # Val(0)
          /\ adj_momentum_values[i] = Zero
          /\ adj_momentum_values[j] = Zero
          /\ adj_momentum_values[k] # Zero
          /\ divisors = {EPS + 1}

\* ------------------------------------------------------------ rebalance
\* next() changes neither the broker nor the closes, so after the call these
\* are the values the rebalance read.
TotalValue == getvalue(cash, position, close)
Diff(i) == RSub(RMul(FromInt(TotalValue), target_weights[i]),
                FromInt(position[i] * close[i]))
AbsDiff(i) == RAbs(Diff(i))
Band == Rat(TotalValue, 100)
OrdersOf(i) == SelectSeq(orders, LAMBDA o : o.data = i)
Buy(i, n) == [data |-> i, side |-> "buy", size |-> n]
Sell(i, n) == [data |-> i, side |-> "sell", size |-> n]
\* diff / price truncated toward zero, and rounded down.
Truncated(i) ==
    LET q == RDiv(Diff(i), FromInt(close[i]))
    IN  IF RLt(q, Zero) THEN -Floor(<<-q[1], q[2]>>) ELSE Floor(q)
Floored(i) == Floor(RDiv(Diff(i), FromInt(close[i])))
IntentsFor(i, shares) ==
    IF shares > 0 THEN <<Buy(i, shares)>>
    ELSE IF shares < 0 THEN <<Sell(i, -shares)>>
    ELSE <<>>

\* C4: in a rebalance no order is emitted for a feed whose
\* |target_value - current_value| is at most 1% of the total portfolio
\* value, equality included.
C4_NoOrderWithinBand ==
    Rebalanced =>
        \A i \in Assets : RLe(AbsDiff(i), Band) => OrdersOf(i) = <<>>

\* a rebalance with a feed exactly on the band, away from its target, and
\* another feed that is traded.
C4_Witness ==
    /\ Rebalanced
    /\ TotalValue > 0
    /\ \E i, j \in Assets :
          /\ AbsDiff(i) = Band
          /\ position[i] > 0
          /\ OrdersOf(i) = <<>>
          /\ OrdersOf(j) # <<>>

\* C5 as stated, shares rounded down (floor): for every feed whose |diff|
\* exceeds the threshold a buy of floor(diff / price) shares is emitted if
\* that is > 0, a sell of its absolute value if it is < 0, nothing if it is 0.
C5_SharesFloored ==
    Rebalanced =>
        \A i \in Assets :
            RGt(AbsDiff(i), Band) => OrdersOf(i) = IntentsFor(i, Floored(i))

\* C5 amended: for every feed whose |diff| exceeds the threshold, shares is
\* diff / price truncated toward zero (floor for a positive diff, ceiling for
\* a negative one); a buy of `shares` is emitted if shares > 0, a sell of
\* |shares| if shares < 0, and nothing if shares = 0.
C5_SharesTruncated ==
    Rebalanced =>
        \A i \in Assets :
            RGt(AbsDiff(i), Band) => OrdersOf(i) = IntentsFor(i, Truncated(i))

\* a rebalance that sells on a negative diff that is not a whole number of
\* shares, buys another feed, and drops a third whose shares truncate to 0.
C5_Witness ==
    /\ Rebalanced
    /\ \E i \in Assets :
          /\ RGt(AbsDiff(i), Band)
          /\ Floored(i) < Truncated(i)
          /\ Truncated(i) < 0
          /\ OrdersOf(i) = <<Sell(i, -Truncated(i))>>
    /\ \E j \in Assets : RGt(AbsDiff(j), Band) /\ OrdersOf(j) = <<Buy(j, Truncated(j))>>

\* a feed above the threshold whose negative diff truncates to 0 shares.
C5_WitnessNoShares ==
    /\ Rebalanced
    /\ \E i \in Assets :
          /\ RGt(AbsDiff(i), Band)
          /\ RLt(Diff(i), Zero)
          /\ Truncated(i) = 0
          /\ OrdersOf(i) = <<>>

\* C6 as stated: with total_value = 100000, a feed whose diff is 500 gets no
\* order and a feed whose diff is 1500 gets an order, whatever its price.
C6_GateAnyPrice ==
    (Rebalanced /\ TotalValue = 100000) =>
        \A i \in Assets :
            /\ AbsDiff(i) = FromInt(500) => OrdersOf(i) = <<>>
            /\ AbsDiff(i) = FromInt(1500) => OrdersOf(i) # <<>>

\* C6 amended: with total_value = 100000, a feed whose diff is 500 gets no
\* order; a feed whose diff is 1500 gets an order exactly when its price is
\* at most 1500, and none when the price is higher (the size truncates to 0).
C6_GateUpToPrice ==
    (Rebalanced /\ TotalValue = 100000) =>
        \A i \in Assets :
            /\ AbsDiff(i) = FromInt(500) => OrdersOf(i) = <<>>
            /\ AbsDiff(i) = FromInt(1500) => (OrdersOf(i) # <<>> <=> close[i] <= 1500)

\* total_value = 100000 with a diff of 1500 that is traded, and one with a
\* diff of 500.
C6_Witness ==
    /\ Rebalanced
    /\ TotalValue = 100000
    /\ \E i \in Assets :
          /\ Diff(i) = FromInt(1500)
          /\ close[i] > 500 /\ close[i] <= 1500
          /\ OrdersOf(i) = <<Buy(i, 1)>>

C6_WitnessBelow ==
    /\ Rebalanced
    /\ TotalValue = 100000
    /\ \E i \in Assets : Diff(i) = FromInt(500) /\ close[i] = 100 /\ OrdersOf(i) = <<>>

C6_WitnessHighPrice ==
    /\ Rebalanced
    /\ TotalValue = 100000
    /\ \E i \in Assets : Diff(i) = FromInt(1500) /\ close[i] > 1500 /\ OrdersOf(i) = <<>>

\* C7: when no score is strictly positive the target weights are all zero
\* and the rebalance emits no buy; it emits an order for a feed, a sell of the
\* whole holding, exactly when the feed's current value exceeds 1% of the
\* total portfolio value.
C7_AllCashLiquidates ==
    (Rebalanced /\ ~SomePositive) =>
        /\ \A i \in Assets : target_weights[i] = Zero
        /\ \A k \in 1..Len(orders) : orders[k].side = "sell"
        /\ \A i \in Assets :
              OrdersOf(i) =
                 IF position[i] * close[i] * 100 > TotalValue
                 THEN <<Sell(i, position[i])>>
                 ELSE <<>>

\* no positive score, one holding liquidated and one holding kept because
\* it is within the 1%.
C7_Witness ==
    /\ Rebalanced
    /\ ~SomePositive
    /\ \E i, j \in Assets :
          /\ position[i] > 0 /\ OrdersOf(i) = <<Sell(i, position[i])>>
          /\ position[j] > 0 /\ OrdersOf(j) = <<>>

\* ------------------------------------------------------------------ the run
\* the strategy callback of the current bar has returned.
CallbackDone == pc = "feed" /\ bar >= 1
\* returns observed up to the current bar: close[t] / close[t-1] - 1 needs
\* two bars, so bar b has seen b - 1 of them.
ReturnsObserved == bar - 1

\* C8: on a bar at which fewer than W = momentum_window returns have been
\* observed the strategy computes no scores and no target weights and emits no
\* order; a rebalance happens only on a bar whose window holds W returns.
C8_NoActionBeforeWarm ==
    /\ (CallbackDone /\ ReturnsObserved < MomentumWindow) =>
          /\ outcome = "prenext"
          /\ adj_momentum_values = <<>>
          /\ target_weights = <<>>
          /\ orders = <<>>
    /\ outcome = "rebalance" => ReturnsObserved >= MomentumWindow

\* the bar that holds W bars but only W - 1 returns has been processed.
C8_Witness ==
    /\ CallbackDone
    /\ bar = MomentumWindow
    /\ outcome = "prenext"

\* the first rebalance, on the bar with W returns, emitting orders.
C8_WitnessFirst ==
    /\ CallbackDone
    /\ bar = MomentumWindow + 1
    /\ outcome = "rebalance"
    /\ orders # <<>>

\* C9: with rebalance_days = k >= 1, next() computes weights and calls
\* _rebalance_portfolio only on its calls number k, 2k, 3k, ...; on every
\* other call it emits no order and computes no weights; rebalance_counter is
\* within 0..k-1 after each call; with k = 1 every warm bar rebalances.
C9_RebalanceEveryKthCall ==
    /\ rebalance_counter \in 0..(rebalance_days - 1)
    /\ rebalance_counter = calls % rebalance_days
    /\ (pc = "feed" /\ calls >= 1) =>
          /\ outcome = "rebalance" => calls % rebalance_days = 0
          /\ calls % rebalance_days # 0 =>
                /\ outcome = "skip"
                /\ target_weights = <<>>
                /\ orders = <<>>
          /\ (rebalance_days = 1 /\ ReturnsObserved >= MomentumWindow) =>
                outcome = "rebalance"

\* k = 2: the fourth call rebalances and emits orders.
C9_Witness ==
    /\ pc = "feed"
    /\ rebalance_days = 2
    /\ calls = 4
    /\ outcome = "rebalance"
    /\ orders # <<>>

\* k = 2: the third call is skipped.
C9_WitnessSkip ==
    /\ pc = "feed"
    /\ rebalance_days = 2
    /\ calls = 3
    /\ outcome = "skip"
    /\ \E i \in Assets : position[i] > 0

\* C10: no position size is ever negative, and every sell intent is for at
\* most the shares held when it is sized.
C10_NoShortPosition ==
    /\ \A i \in Assets : position[i] >= 0
    /\ \A k \in 1..Len(orders) :
          orders[k].side = "sell" => orders[k].size <= position[orders[k].data]

\* a rebalance that sells all of one holding and part of another.
C10_Witness ==
    /\ Rebalanced
    /\ \E i, j \in Assets :
          /\ position[i] > 0 /\ OrdersOf(i) = <<Sell(i, position[i])>>
          /\ OrdersOf(j) # <<>>
          /\ OrdersOf(j)[1].side = "sell"
          /\ OrdersOf(j)[1].size < position[j]

\* a holding has been sold out: the cash is not the initial cash any more and
\* nothing is held.
C10_WitnessSoldOut ==
    /\ pc = "strategy"
    /\ cash # InitialCash
    /\ \A i \in Assets : position[i] = 0

\* ------------------------------------------------------------ funding
RECURSIVE Notional(_, _)
\* the notional of the intents of one side, shares * sizing close.
Notional(os, side) ==
    IF os = <<>> THEN 0
    ELSE (IF Head(os).side = side THEN Head(os).size * close[Head(os).data] ELSE 0)
         + Notional(Tail(os), side)

\* C11: in every rebalance the notional of the buy intents does not exceed
\* the available cash plus the notional of the sell intents of the same
\* rebalance.
C11_BuysFunded ==
    Rebalanced => Notional(orders, "buy") <= cash + Notional(orders, "sell")

\* C12: a call of next() leaves cash, positions and closes, hence the total
\* value, unchanged, and every feed's intent of one rebalance is sized from
\* the same total portfolio value, whatever was emitted for earlier feeds.
C12_RebalanceOnlyReads ==
    /\ [][(pc = "strategy" /\ pc' = "feed") =>
            /\ cash' = cash
            /\ position' = position
            /\ close' = close
            /\ getvalue(cash', position', close') = getvalue(cash, position, close)]_vars
    /\ [](Rebalanced =>
            \A i \in Assets :
               LET target == RMul(FromInt(TotalValue), target_weights[i])
                   held == FromInt(position[i] * close[i])
                   sh == int(RDiv(RSub(target, held), FromInt(close[i])))
               IN  OrdersOf(i) =
                      IF RGt(RAbs(RSub(target, held)), Band)
                      THEN IntentsFor(i, sh)
                      ELSE <<>>)

\* a rebalance that buys an earlier feed and then trades a later one.
C12_Witness ==
    /\ Rebalanced
    /\ \E i, j \in Assets :
          /\ i < j
          /\ OrdersOf(i) # <<>> /\ OrdersOf(i)[1].side = "buy"
          /\ OrdersOf(j) # <<>> /\ OrdersOf(j)[1].side = "buy"

\* ------------------------------------------------- performance metrics
\* the returns the calculator was given, and the cumulative value they
\* stand for: the value at every bar after the first over the first value.
Returns == custom.returns
CumValue(t) == Rat(custom.values[t + 1], custom.values[1])

IsZeroNum(x) == x[1] = "num" /\ x[2] = Zero
AllEqual(xs) == \A s, t \in 1..Len(xs) : xs[s] = xs[t]
Downside == SelectSeq(Returns, LAMBDA x : RLt(x, Zero))
Wins == Cardinality({t \in 1..Len(Returns) : RGt(Returns[t], Zero)})

C16_ZeroVarianceSharpeZero ==
    (metrics.sharpe_ratio # <<>> /\ Len(Returns) >= 1 /\ AllEqual(Returns))
        => IsZeroNum(metrics.sharpe_ratio[1])

\* C17: max_drawdown is 0 for the empty series and the minimum of the
\* calc_drawdown series otherwise.
C17_MaxDrawdownIsMinOrZero ==
    metrics.max_drawdown # <<>> =>
        IF Returns = <<>>
        THEN IsZeroNum(metrics.max_drawdown[1])
        ELSE /\ metrics.max_drawdown[1][1] = "num"
             /\ metrics.max_drawdown[1][2] = series_min(calc_drawdown(Returns))

\* C18: the Sortino ratio is 0 if no return is below the required return or
\* the downside returns have standard deviation zero or none (one point),
\* and sqrt(252) * mean(excess) / stddev(downside) otherwise.
C18_SortinoZeroOrRatio ==
    metrics.sortino_ratio # <<>> =>
        IF Downside = <<>> \/ AllEqual(Downside)
        THEN IsZeroNum(metrics.sortino_ratio[1])
        ELSE /\ metrics.sortino_ratio[1][1] = "ratio"
             /\ metrics.sortino_ratio[1][2] = RDiv(RSum(Returns), FromInt(Len(Returns)))
             /\ metrics.sortino_ratio[1][3] = variance(Downside)

\* C19: win_rate of n >= 1 returns is the number of returns > 0 over n and
\* lies in [0, 1]; for n = 0 it is 0.
C19_WinRateShareOrZero ==
    metrics.win_rate # <<>> =>
        IF Len(Returns) >= 1
        THEN /\ metrics.win_rate[1][1] = "num"
             /\ metrics.win_rate[1][2] = Rat(Wins, Len(Returns))
             /\ RLe(Zero, metrics.win_rate[1][2])
             /\ RLe(metrics.win_rate[1][2], One)
        ELSE IsZeroNum(metrics.win_rate[1])

\* ------------------------------------------------------ the rising run
\* a float result that is > 0, >= 0: b ** e - 1 with e > 0 has the sign of b - 1.
Positive(x) ==
    \/ x[1] = "num" /\ RGt(x[2], Zero)
    \/ x[1] = "pow" /\ RGt(x[2], One)
NonNegative(x) ==
    \/ x[1] = "num" /\ RLe(Zero, x[2])
    \/ x[1] = "pow" /\ RLe(One, x[2])

\* the report of a run over the whole rising feed.
RisingReported ==
    /\ pc = "report"
    /\ bar = MaxBars
    /\ metrics.drawdown # <<>>
    /\ metrics.annualized_return # <<>>

RECURSIVE Power(_, _)
Power(b, e) == IF e = 0 THEN 1 ELSE b * Power(b, e - 1)

\* the rising feed grew by the same factor on every bar.
ConstantGrowth ==
    \E g \in GrowthFactors : close[1] = FirstClose * Power(g, bar - 1)

\* the strategy held the rising feed over a bar on which its close rose.
Gained == custom.values[Len(custom.values)] > custom.values[1]

C20_WitnessFlat ==
    /\ RisingReported
    /\ ConstantGrowth
    /\ metrics.annualized_return[1][1] = "pow"
    /\ metrics.annualized_return[1][2] = One

\* the rising run has delivered its last bar and every callback has run.
RisingRunOver == pc = "feed" /\ bar = MaxBars /\ Len(custom.values) = bar

\* cerebro.broker.getvalue() now.
FinalValue == getvalue(cash, position, close)

C21_WitnessCash ==
    /\ RisingRunOver
    /\ ConstantGrowth
    /\ FinalValue = InitialCash

\* ------------------------------------------------ the rolling volatility
\* the sample standard deviation (divisor W - 1) of a window of at least
\* two returns, in units of 1e-8, rounded as StandardDeviation rounds.
SampleDeviation(window) ==
    LET m == RDiv(RSum(window), FromInt(Len(window)))
        sq == [t \in 1..Len(window) |-> RMul(RSub(window[t], m), RSub(window[t], m))]
        v == RDiv(RSum(sq), FromInt(Len(window) - 1))
    IN  (isqrt(v[1] * v[2] * 10000) * (Units \div 100)) \div v[2]

\* the strategy reads the indicators of a warm bar.
WarmReading == pc = "strategy" /\ bar >= MinPeriod

\* C22: at a warm bar the volatility of every feed is the sample standard
\* deviation (divisor W - 1) of its last W returns.
C22_VolatilityIsSampleDeviation ==
    WarmReading =>
        \A i \in Assets : volatility[i] = Val(SampleDeviation(ret[i]))

\* ----------------------------------------------------------- fetching data
\* the symbols the loop has handled so far.
Handled == 1..Len(fetch.log)
Obtained(k) == fetch.log[k].cache = "data" \/ fetch.log[k].download = "data"

\* C23: no symbol makes fetch_etf_data raise: the loop handles the symbols
\* in order whatever happened to the earlier ones, it returns only after the
\* last one, and the mapping holds a symbol exactly if non-empty data was
\* obtained for it from the cache or from the download.
C23_NoSymbolIsFatal ==
    /\ ~fetch.raised
    /\ Len(fetch.log) = fetch.next - 1
    /\ \A k \in Handled : fetch.log[k].symbol = k
    /\ fetch.returned => Len(fetch.log) = N
    /\ \A k \in Handled : k \in fetch.data_dict <=> Obtained(k)

\* the first symbol fails twice (cache unreadable, download raises), the
\* second has no data, and the third is still fetched and returned.
C23_Witness ==
    /\ fetch.returned
    /\ fetch.log[1].cache = "unreadable" /\ fetch.log[1].download = "raises"
    /\ fetch.log[2].cache = "missing" /\ fetch.log[2].download = "empty"
    /\ fetch.data_dict = {3}

\* C24: a symbol is downloaded exactly if its cache file is not usable
\* (missing, unreadable or empty); a usable cache file is taken without a
\* download; a non-empty download is kept even if writing the cache fails.
C24_DownloadOnlyWithoutCache ==
    \A k \in Handled :
        /\ fetch.log[k].cache = "data" =>
              (fetch.log[k].download = "none" /\ k \in fetch.data_dict)
        /\ fetch.log[k].cache \in {"missing", "unreadable", "empty"} =>
              fetch.log[k].download \in DownloadResults
        /\ (fetch.log[k].download = "data" /\ fetch.log[k].write = "raises") =>
              k \in fetch.data_dict

\* one symbol from the cache, one downloaded after an empty cache file and
\* kept although the cache could not be written.
C24_Witness ==
    /\ Len(fetch.log) >= 2
    /\ fetch.log[1].cache = "data" /\ fetch.log[1].download = "none"
    /\ fetch.log[2].cache = "empty" /\ fetch.log[2].download = "data"
    /\ fetch.log[2].write = "raises"
    /\ fetch.data_dict = {1, 2}

\* ------------------------------------------------ the copies of the strategy
\* both copies have handled the bar.
BothCalled == pc = "feed" /\ outcome # "none" /\ copy.outcome # "none"

\* C25: with rebalance_days = 1, on the same bar and portfolio both copies
\* take the same branch of next() and compute the same target weights and
\* the same sequence of order intents.
C25_CopiesAgree ==
    (BothCalled /\ rebalance_days = 1) =>
        /\ copy.outcome = outcome
        /\ copy.rebalance_counter = rebalance_counter
        /\ copy.target_weights = target_weights
        /\ copy.orders = orders

\* both copies rebalance into two feeds, selling one holding and buying another.
C25_Witness ==
    /\ BothCalled
    /\ outcome = "rebalance"
    /\ Len(orders) >= 2
    /\ \E k, l \in 1..Len(copy.orders) :
          copy.orders[k].side = "sell" /\ copy.orders[l].side = "buy"
    /\ \E i \in Assets : copy.target_weights[i] \notin {Zero, One}

\* ------------------------------------------------ the buy-and-hold baselines
\* C26: JustBuyHoldStrategy has at most one order outstanding at any time,
\* under every interleaving of bars and order notifications.
C26_OneOutstanding ==
    hold.variant = "JustBuyHold" => Cardinality(outstanding(hold)) <= 1

\* C27: in JustBuyHoldStrategy bought is true only once a buy has been
\* reported Completed, and at most one buy of the baseline is ever filled.
C27_OneFill ==
    hold.variant = "JustBuyHold" =>
        /\ hold.bought => hold.fills >= 1
        /\ hold.fills <= 1

\* C28: a baseline whose buy was Canceled, Rejected or failed on Margin,
\* and that holds nothing and has nothing outstanding, is still un-bought,
\* so that its next() submits a new buy; for both baseline classes.
C28_FailedBuyRetried ==
    (hold.failed > 0 /\ outstanding(hold) = {} /\ hold.position = 0) =>
        ~hold.bought

\* the same, for JustBuyHoldStrategy alone.
C28_JustBuyHoldRetries ==
    hold.variant = "JustBuyHold" => C28_FailedBuyRetried

\* ------------------------------------------------------ rebalancing twice
RECURSIVE Intended(_, _)
\* the holdings once every intent of os is filled in full.
Intended(pos, os) ==
    IF os = <<>> THEN pos
    ELSE Intended([pos EXCEPT ![Head(os).data] =
                       IF Head(os).side = "buy" THEN @ + Head(os).size
                       ELSE @ - Head(os).size],
                  Tail(os))

\* the broker has just filled every intent of the last rebalance, at the
\* prices the intents were sized with.
FilledAtSizingPrices ==
    /\ pc = "broker" /\ pc' = "strategy"
    /\ outcome = "rebalance"
    /\ open = close
    /\ position' = Intended(position, orders)

C30_ReturnsAlignedWithDates ==
    LET n == Len(custom.values)
    IN  /\ pc # "report" =>
              /\ Len(custom.dates) = n
              /\ \A t \in 1..n : custom.dates[t] = t
        /\ (pc = "report" /\ n >= 1) =>
              /\ Len(custom.returns) = n - 1
              /\ Len(custom.dates) = n - 1
              /\ \A i \in 1..(n - 1) :
                    /\ custom.returns[i] =
                          Rat(custom.values[i + 1] - custom.values[i], custom.values[i])
                    /\ custom.dates[i] = i + 1

\* a finished run of three bars or more whose value moved on the last bar.
C30_Witness ==
    /\ pc = "report"
    /\ Len(custom.values) >= 3
    /\ Len(custom.dates) = Len(custom.returns)
    /\ custom.returns[Len(custom.returns)] # Zero

====
